---------------------------- MODULE Spec2Model ----------------------------
(***************************************************************************)
(* Model of the Rect iterators of src/layout/rect/iter.rs (Rows, Columns,  *)
(* Positions) and of the Points canvas shape of                            *)
(* ratatui-widgets/src/canvas/points.rs.                                   *)
(*                                                                         *)
(* A behaviour constructs one object from inputs chosen in Init (the       *)
(* variable active names it) and then lets a caller invoke its methods in  *)
(* any order.  Coordinates are u16: additions that the source writes with  *)
(* `+= 1` either panic (overflow-checks on) or wrap modulo 2^16.           *)
(***************************************************************************)
EXTENDS Integers, Sequences, FiniteSets

VARIABLES
    active,           \* which object the caller drives: "Rows", "Columns", "Positions", "Points"
    overflow_checks,  \* the build's overflow-checks setting (debug: TRUE, release: FALSE)
    rows,             \* the Rows iterator
    columns,          \* the Columns iterator
    positions,        \* the Positions iterator
    op,               \* name of the last method called
    res,              \* what the last method call returned
    out,              \* the items the caller received, in order, each with the method that gave it
    skip,             \* number of yielded items the caller still discards (Iterator::skip)
    points,           \* the Points shape: coords and color
    painter,          \* the canvas painter: its grid and the log of paint calls
    grid0,            \* the grid as it was before draw
    idx               \* draw's loop position: index of the next coordinate pair

vars == <<active, overflow_checks, rows, columns, positions, op, res, out, skip,
          points, painter, grid0, idx>>

iterVars == <<rows, columns, positions>>
drawVars == <<points, painter, grid0, idx>>

---------------------------------------------------------------------------
(* Bounds of the model *)

\* largest width / height of a region that is enumerated
MaxExtent == 3
\* largest number of coordinate pairs of a Points shape
MaxCoords == 3
\* the caller stops pulling after this many received items
MaxOut == (MaxExtent * MaxExtent) + 3

---------------------------------------------------------------------------
(* u16 arithmetic *)

U16Max == 65535
U16Mod == U16Max + 1

saturating_add(a, b) == IF a + b > U16Max THEN U16Max ELSE a + b
saturating_sub(a, b) == IF a < b THEN 0 ELSE a - b
saturating_mul(a, b) == IF a * b > U16Max THEN U16Max ELSE a * b

\* `v += 1` overflows exactly when v is u16::MAX
AddOverflows(v) == v + 1 > U16Max
WrappingInc(v) == (v + 1) % U16Mod
\* `v -= 1`
SubOverflows(v) == v - 1 < 0
WrappingDec(v) == (v + U16Mod - 1) % U16Mod

None == [tag |-> "None"]
Some(v) == [tag |-> "Some", val |-> v]
Panic == [tag |-> "Panic"]

---------------------------------------------------------------------------
(* Rect and Position: value types of ratatui's layout module *)

RectNew(x, y, width, height) == [x |-> x, y |-> y, width |-> width, height |-> height]
right(rect) == saturating_add(rect.x, rect.width)
bottom(rect) == saturating_add(rect.y, rect.height)
PositionNew(x, y) == [x |-> x, y |-> y]

---------------------------------------------------------------------------
(* Rows *)

\* RowsNew with the backward cursor on the last row instead of one past it
RowsNew_BackOnLastRow(rect) ==
    [rect |-> rect, current_row_fwd |-> rect.y,
     current_row_back |-> saturating_sub(bottom(rect), 1)]

RowsNew(rect) ==
    [rect |-> rect, current_row_fwd |-> rect.y, current_row_back |-> bottom(rect)]

\* RowsNext with the end test written `>`: the row at the backward cursor is yielded too
RowsNext_InclusiveEnd(self, oc) ==
    IF self.current_row_fwd > self.current_row_back
    THEN [self |-> self, ret |-> None]
    ELSE IF AddOverflows(self.current_row_fwd) /\ oc
    THEN [self |-> self, ret |-> Panic]
    ELSE [self |-> [self EXCEPT !.current_row_fwd = WrappingInc(@)],
          ret |-> Some(RectNew(self.rect.x, self.current_row_fwd, self.rect.width, 1))]

\* a method call returns the updated object and the returned value
RowsNext(self, oc) ==
    IF self.current_row_fwd >= self.current_row_back
    THEN [self |-> self, ret |-> None]
    ELSE IF AddOverflows(self.current_row_fwd) /\ oc
    THEN [self |-> self, ret |-> Panic]
    ELSE [self |-> [self EXCEPT !.current_row_fwd = WrappingInc(@)],
          ret |-> Some(RectNew(self.rect.x, self.current_row_fwd, self.rect.width, 1))]

RowsSizeHint(self) ==
    saturating_sub(
        saturating_sub(self.rect.height,
                       saturating_sub(self.current_row_fwd, self.rect.y)),
        saturating_sub(bottom(self.rect), self.current_row_back))

\* RowsNextBack that yields the row at the cursor before decrementing it
RowsNextBack_YieldThenDecrement(self, oc) ==
    IF self.current_row_back <= self.current_row_fwd
    THEN [self |-> self, ret |-> None]
    ELSE IF SubOverflows(self.current_row_back) /\ oc
    THEN [self |-> self, ret |-> Panic]
    ELSE [self |-> [self EXCEPT !.current_row_back = WrappingDec(@)],
          ret |-> Some(RectNew(self.rect.x, self.current_row_back, self.rect.width, 1))]

\* RowsNextBack with the end test written `<`: it still yields when the cursors have met
RowsNextBack_InclusiveEnd(self, oc) ==
    IF self.current_row_back < self.current_row_fwd
    THEN [self |-> self, ret |-> None]
    ELSE IF SubOverflows(self.current_row_back) /\ oc
    THEN [self |-> self, ret |-> Panic]
    ELSE LET back == WrappingDec(self.current_row_back)
         IN [self |-> [self EXCEPT !.current_row_back = back],
             ret |-> Some(RectNew(self.rect.x, back, self.rect.width, 1))]

RowsNextBack(self, oc) ==
    IF self.current_row_back <= self.current_row_fwd
    THEN [self |-> self, ret |-> None]
    ELSE IF SubOverflows(self.current_row_back) /\ oc
    THEN [self |-> self, ret |-> Panic]
    ELSE LET back == WrappingDec(self.current_row_back)
         IN [self |-> [self EXCEPT !.current_row_back = back],
             ret |-> Some(RectNew(self.rect.x, back, self.rect.width, 1))]

---------------------------------------------------------------------------
(* Columns *)

ColumnsNew(rect) ==
    [rect |-> rect, current_column_fwd |-> rect.x, current_column_back |-> right(rect)]

\* ColumnsNext that builds the column at the rect's x instead of at the cursor
ColumnsNext_AtRectX(self, oc) ==
    IF self.current_column_fwd >= self.current_column_back
    THEN [self |-> self, ret |-> None]
    ELSE IF AddOverflows(self.current_column_fwd) /\ oc
    THEN [self |-> self, ret |-> Panic]
    ELSE [self |-> [self EXCEPT !.current_column_fwd = WrappingInc(@)],
          ret |-> Some(RectNew(self.rect.x, self.rect.y, 1, self.rect.height))]

\* ColumnsNext with the end test written `>`: the column at right() is yielded too
ColumnsNext_InclusiveEnd(self, oc) ==
    IF self.current_column_fwd > self.current_column_back
    THEN [self |-> self, ret |-> None]
    ELSE IF AddOverflows(self.current_column_fwd) /\ oc
    THEN [self |-> self, ret |-> Panic]
    ELSE [self |-> [self EXCEPT !.current_column_fwd = WrappingInc(@)],
          ret |-> Some(RectNew(self.current_column_fwd, self.rect.y, 1, self.rect.height))]

ColumnsNext(self, oc) ==
    IF self.current_column_fwd >= self.current_column_back
    THEN [self |-> self, ret |-> None]
    ELSE IF AddOverflows(self.current_column_fwd) /\ oc
    THEN [self |-> self, ret |-> Panic]
    ELSE [self |-> [self EXCEPT !.current_column_fwd = WrappingInc(@)],
          ret |-> Some(RectNew(self.current_column_fwd, self.rect.y, 1, self.rect.height))]

\* ColumnsSizeHint copied from Rows with the height left in place of the width
ColumnsSizeHint_FromHeight(self) ==
    saturating_sub(
        saturating_sub(self.rect.height,
                       saturating_sub(self.current_column_fwd, self.rect.x)),
        saturating_sub(right(self.rect), self.current_column_back))

ColumnsSizeHint(self) ==
    saturating_sub(
        saturating_sub(self.rect.width,
                       saturating_sub(self.current_column_fwd, self.rect.x)),
        saturating_sub(right(self.rect), self.current_column_back))

\* ColumnsNextBack that yields the column at the cursor before decrementing it
ColumnsNextBack_YieldThenDecrement(self, oc) ==
    IF self.current_column_back <= self.current_column_fwd
    THEN [self |-> self, ret |-> None]
    ELSE IF SubOverflows(self.current_column_back) /\ oc
    THEN [self |-> self, ret |-> Panic]
    ELSE [self |-> [self EXCEPT !.current_column_back = WrappingDec(@)],
          ret |-> Some(RectNew(self.current_column_back, self.rect.y, 1, self.rect.height))]

ColumnsNextBack(self, oc) ==
    IF self.current_column_back <= self.current_column_fwd
    THEN [self |-> self, ret |-> None]
    ELSE IF SubOverflows(self.current_column_back) /\ oc
    THEN [self |-> self, ret |-> Panic]
    ELSE LET back == WrappingDec(self.current_column_back)
         IN [self |-> [self EXCEPT !.current_column_back = back],
             ret |-> Some(RectNew(back, self.rect.y, 1, self.rect.height))]

---------------------------------------------------------------------------
(* Positions *)

PositionsNew(rect) ==
    [rect |-> rect, current_position |-> PositionNew(rect.x, rect.y)]

PositionsNext(self, oc) ==
    IF self.current_position.y >= bottom(self.rect)
    THEN [self |-> self, ret |-> None]
    ELSE IF AddOverflows(self.current_position.x) /\ oc
    THEN [self |-> self, ret |-> Panic]
    ELSE LET position == self.current_position
             x1 == WrappingInc(position.x)
         IN IF x1 >= right(self.rect)
            THEN IF AddOverflows(position.y) /\ oc
                 THEN [self |-> [self EXCEPT !.current_position.x = self.rect.x],
                       ret |-> Panic]
                 ELSE [self |-> [self EXCEPT !.current_position =
                                     PositionNew(self.rect.x, WrappingInc(position.y))],
                       ret |-> Some(position)]
            ELSE [self |-> [self EXCEPT !.current_position.x = x1],
                  ret |-> Some(position)]

PositionsSizeHint(self) ==
    LET remaining_rows ==
            saturating_sub(saturating_add(self.rect.height, self.rect.y),
                           self.current_position.y)
        remaining_cells ==
            saturating_sub(saturating_add(self.rect.width, self.rect.x),
                           self.current_position.x)
        remaining_rows_cell_count ==
            saturating_mul(saturating_sub(remaining_rows, 1), self.rect.width)
    IN IF remaining_rows # 0
       THEN saturating_add(remaining_cells, remaining_rows_cell_count)
       ELSE 0

---------------------------------------------------------------------------
(* The canvas Painter consumed by Points::draw, and Points::draw itself *)

\* the canvas of the model: x_bounds, y_bounds and resolution of the painter's context
XBounds == <<0, 2>>
YBounds == <<0, 1>>
Resolution == <<2, 2>>
Cells == (0 .. (Resolution[1] - 1)) \X (0 .. (Resolution[2] - 1))

\* Painter::get_point: the grid cell of a canvas coordinate, None outside the bounds
get_point(p, x, y) ==
    LET left == p.x_bounds[1]
        rightB == p.x_bounds[2]
        bottomB == p.y_bounds[1]
        top == p.y_bounds[2]
    IN IF x < left \/ x > rightB \/ y < bottomB \/ y > top
       THEN None
       ELSE Some(<<((x - left) * (p.resolution[1] - 1)) \div (rightB - left),
                   ((top - y) * (p.resolution[2] - 1)) \div (top - bottomB)>>)

\* Painter::paint: sets one cell of the grid; log records the call
paint(p, x, y, color) ==
    [p EXCEPT !.grid = [@ EXCEPT ![<<x, y>>] = color],
              !.log = Append(@, [cell |-> <<x, y>>, color |-> color])]

PainterNew(grid) ==
    [x_bounds |-> XBounds, y_bounds |-> YBounds, resolution |-> Resolution,
     grid |-> grid, log |-> <<>>]

\* DrawPoint that paints the first cell when the projection fails
DrawPoint_PaintOnMiss(self, p, i) ==
    LET c == self.coords[i]
        g == get_point(p, c[1], c[2])
    IN IF g.tag = "Some"
       THEN paint(p, g.val[1], g.val[2], self.color)
       ELSE paint(p, 0, 0, self.color)

\* DrawPoint of a loop that ends at the first coordinate pair whose projection fails
DrawPoint_StopAtMiss(self, p, i) ==
    LET c == self.coords[i]
        g == get_point(p, c[1], c[2])
        missed == \E j \in 1 .. i : get_point(p, self.coords[j][1], self.coords[j][2]) = None
    IN IF ~missed
       THEN paint(p, g.val[1], g.val[2], self.color)
       ELSE p

\* one iteration of the loop of Points::draw, for the coordinate pair at index i
DrawPoint(self, p, i) ==
    LET c == self.coords[i]
        g == get_point(p, c[1], c[2])
    IN IF g.tag = "Some"
       THEN paint(p, g.val[1], g.val[2], self.color)
       ELSE p

---------------------------------------------------------------------------
(* Inputs *)

\* origins of the enumerated regions: the low and the high end of u16
Origins == {0, 1, U16Max - 1, U16Max}
Extents == 0 .. MaxExtent
Rects == {RectNew(x, y, w, h) : x \in Origins, y \in Origins, w \in Extents, h \in Extents}
EmptyRect == RectNew(0, 0, 0, 0)

\* canvas coordinates of the enumerated points: inside and outside the bounds
CoordXs == (XBounds[1] - 1) .. XBounds[2]
CoordYs == YBounds[1] .. (YBounds[2] + 1)
Coords == CoordXs \X CoordYs
Colors == {"Reset", "Red", "Blue"}
CoordSeqs == UNION {[1 .. n -> Coords] : n \in 0 .. MaxCoords}
Grids == {[c \in Cells |-> col] : col \in {"Reset", "Blue"}}

NoPoints == [coords |-> <<>>, color |-> "Reset"]
NoGrid == [c \in Cells |-> "Reset"]

---------------------------------------------------------------------------
(* Initial states *)

InitIter(kind, rect) ==
    /\ active = kind
    /\ overflow_checks \in BOOLEAN
    /\ rows = RowsNew(IF kind = "Rows" THEN rect ELSE EmptyRect)
    /\ columns = ColumnsNew(IF kind = "Columns" THEN rect ELSE EmptyRect)
    /\ positions = PositionsNew(IF kind = "Positions" THEN rect ELSE EmptyRect)
    /\ op = "new"
    /\ res = None
    /\ out = <<>>
    /\ points = NoPoints
    /\ painter = PainterNew(NoGrid)
    /\ grid0 = NoGrid
    /\ idx = 1

InitPoints ==
    /\ active = "Points"
    /\ overflow_checks = FALSE
    /\ rows = RowsNew(EmptyRect)
    /\ columns = ColumnsNew(EmptyRect)
    /\ positions = PositionsNew(EmptyRect)
    /\ op = "new"
    /\ res = None
    /\ out = <<>>
    /\ skip = 0
    /\ \E cs \in CoordSeqs, col \in Colors \ {"Reset"} :
           points = [coords |-> cs, color |-> col]
    /\ \E g \in Grids : painter = PainterNew(g) /\ grid0 = g
    /\ idx = 1

Init ==
    \/ \E kind \in {"Rows", "Columns", "Positions"}, rect \in Rects :
           InitIter(kind, rect) /\ skip = 0
    \/ InitPoints

---------------------------------------------------------------------------
(* The caller *)

\* the caller keeps a yielded item unless it is still skipping
Receive(name, ret) ==
    IF ret.tag = "Some"
    THEN IF skip > 0
         THEN skip' = skip - 1 /\ out' = out
         ELSE skip' = skip /\ out' = Append(out, [op |-> name, item |-> ret.val])
    ELSE UNCHANGED <<skip, out>>

\* the caller can call a method while the program has not panicked
CanCall(kind) == active = kind /\ res # Panic /\ Len(out) < MaxOut

CallRowsNext ==
    /\ CanCall("Rows")
    /\ LET r == RowsNext(rows, overflow_checks)
       IN rows' = r.self /\ res' = r.ret /\ Receive("next", r.ret)
    /\ op' = "next"
    /\ UNCHANGED <<active, overflow_checks, columns, positions, drawVars>>

CallRowsNextBack ==
    /\ CanCall("Rows")
    /\ LET r == RowsNextBack(rows, overflow_checks)
       IN rows' = r.self /\ res' = r.ret /\ Receive("next_back", r.ret)
    /\ op' = "next_back"
    /\ UNCHANGED <<active, overflow_checks, columns, positions, drawVars>>

CallRowsSizeHint ==
    /\ CanCall("Rows")
    /\ res' = [tag |-> "SizeHint", lower |-> RowsSizeHint(rows), upper |-> None]
    /\ op' = "size_hint"
    /\ UNCHANGED <<active, overflow_checks, iterVars, out, skip, drawVars>>

CallColumnsNext ==
    /\ CanCall("Columns")
    /\ LET r == ColumnsNext(columns, overflow_checks)
       IN columns' = r.self /\ res' = r.ret /\ Receive("next", r.ret)
    /\ op' = "next"
    /\ UNCHANGED <<active, overflow_checks, rows, positions, drawVars>>

CallColumnsNextBack ==
    /\ CanCall("Columns")
    /\ LET r == ColumnsNextBack(columns, overflow_checks)
       IN columns' = r.self /\ res' = r.ret /\ Receive("next_back", r.ret)
    /\ op' = "next_back"
    /\ UNCHANGED <<active, overflow_checks, rows, positions, drawVars>>

CallColumnsSizeHint ==
    /\ CanCall("Columns")
    /\ res' = [tag |-> "SizeHint", lower |-> ColumnsSizeHint(columns), upper |-> None]
    /\ op' = "size_hint"
    /\ UNCHANGED <<active, overflow_checks, iterVars, out, skip, drawVars>>

CallPositionsNext ==
    /\ CanCall("Positions")
    /\ LET r == PositionsNext(positions, overflow_checks)
       IN positions' = r.self /\ res' = r.ret /\ Receive("next", r.ret)
    /\ op' = "next"
    /\ UNCHANGED <<active, overflow_checks, rows, columns, drawVars>>

CallPositionsSizeHint ==
    /\ CanCall("Positions")
    /\ res' = [tag |-> "SizeHint", lower |-> PositionsSizeHint(positions), upper |-> None]
    /\ op' = "size_hint"
    /\ UNCHANGED <<active, overflow_checks, iterVars, out, skip, drawVars>>

\* Points::draw, one loop iteration per step
Draw ==
    /\ active = "Points"
    /\ idx <= Len(points.coords)
    /\ painter' = DrawPoint(points, painter, idx)
    /\ idx' = idx + 1
    /\ op' = "draw"
    /\ UNCHANGED <<active, overflow_checks, iterVars, res, out, skip, points, grid0>>

Next ==
    \/ CallRowsNext
    \/ CallRowsNextBack
    \/ CallRowsSizeHint
    \/ CallColumnsNext
    \/ CallColumnsNextBack
    \/ CallColumnsSizeHint
    \/ CallPositionsNext
    \/ CallPositionsSizeHint
    \/ Draw

Spec == Init /\ [][Next]_vars

---------------------------------------------------------------------------
(* The boundary scenario of tests::columns_max, and its transpose for Rows:
   a region whose far edge is u16::MAX, pulled forward only, the caller
   skipping all but the last item *)

InitMax ==
    /\ \/ InitIter("Columns", RectNew(0, 0, U16Max, 1))
       \/ InitIter("Rows", RectNew(0, 0, 1, U16Max))
    /\ skip = U16Max - 1

NextMax ==
    \/ CallColumnsNext
    \/ CallRowsNext

SpecMax == InitMax /\ [][NextMax]_vars

---------------------------------------------------------------------------
(* Reference enumerations and drains used to state the properties *)

RECURSIVE RowsDrain(_, _)
\* the rows a full forward drain of the iterator yields
RowsDrain(self, oc) ==
    LET r == RowsNext(self, oc)
    IN IF r.ret.tag = "Some" THEN <<r.ret.val>> \o RowsDrain(r.self, oc) ELSE <<>>

RECURSIVE RowsDrainBack(_, _)
\* the rows a full backward drain of the iterator yields
RowsDrainBack(self, oc) ==
    LET r == RowsNextBack(self, oc)
    IN IF r.ret.tag = "Some" THEN <<r.ret.val>> \o RowsDrainBack(r.self, oc) ELSE <<>>

RECURSIVE ColumnsDrain(_, _)
ColumnsDrain(self, oc) ==
    LET r == ColumnsNext(self, oc)
    IN IF r.ret.tag = "Some" THEN <<r.ret.val>> \o ColumnsDrain(r.self, oc) ELSE <<>>

RECURSIVE ColumnsDrainBack(_, _)
ColumnsDrainBack(self, oc) ==
    LET r == ColumnsNextBack(self, oc)
    IN IF r.ret.tag = "Some" THEN <<r.ret.val>> \o ColumnsDrainBack(r.self, oc) ELSE <<>>

RECURSIVE PositionsDrain(_, _, _)
\* the positions the next n calls of next() yield
PositionsDrain(self, oc, n) ==
    IF n = 0
    THEN <<>>
    ELSE LET r == PositionsNext(self, oc)
         IN IF r.ret.tag = "Some"
            THEN <<r.ret.val>> \o PositionsDrain(r.self, oc, n - 1)
            ELSE <<>>

\* the nested loop: outer y from rect.y to bottom - 1, inner x from rect.x to right - 1
NestedLoop(rect) ==
    LET w == right(rect) - rect.x
        h == bottom(rect) - rect.y
    IN [k \in 1 .. (w * h) |->
           PositionNew(rect.x + ((k - 1) % w), rect.y + ((k - 1) \div w))]

Reverse(s) == [i \in 1 .. Len(s) |-> s[Len(s) + 1 - i]]
Items == [i \in 1 .. Len(out) |-> out[i].item]
Distinct(s) == \A i, j \in 1 .. Len(s) : i # j => s[i] # s[j]
Pulled == op \in {"next", "next_back"}
OnlyVia(name) == \A i \in 1 .. Len(out) : out[i].op = name
\* the rect does not reach beyond u16::MAX
OnGrid(rect) == rect.x + rect.width <= U16Max /\ rect.y + rect.height <= U16Max
\* the rect's extent along an axis that lies on the u16 grid
ClippedHeight(rect) == bottom(rect) - rect.y
ClippedWidth(rect) == right(rect) - rect.x

---------------------------------------------------------------------------
(* C1 *)

\* C1, as stated: under any interleaving of next and next_back on Rows
\* (Columns), once a pull has returned nothing the number of items yielded is
\* the region's height (width), and no item is ever yielded twice.
C1_YieldsHeightItems ==
    /\ active = "Rows" =>
        /\ Distinct(Items)
        /\ (Pulled /\ res = None) => Len(out) = rows.rect.height
    /\ active = "Columns" =>
        /\ Distinct(Items)
        /\ (Pulled /\ res = None) => Len(out) = columns.rect.width

\* C1, amended: under any interleaving of next and next_back on Rows
\* (Columns), once a pull has returned nothing both directions return nothing,
\* the number of items yielded is bottom() - y (right() - x), which is the
\* height (width) unless y + height (x + width) exceeds u16::MAX, and no item
\* is ever yielded twice.
C1_MeetInTheMiddle ==
    /\ active = "Rows" =>
        /\ Distinct(Items)
        /\ res # Panic
        /\ (Pulled /\ res = None) =>
            /\ Len(out) = ClippedHeight(rows.rect)
            /\ RowsNext(rows, overflow_checks).ret = None
            /\ RowsNextBack(rows, overflow_checks).ret = None
    /\ active = "Columns" =>
        /\ Distinct(Items)
        /\ res # Panic
        /\ (Pulled /\ res = None) =>
            /\ Len(out) = ClippedWidth(columns.rect)
            /\ ColumnsNext(columns, overflow_checks).ret = None
            /\ ColumnsNextBack(columns, overflow_checks).ret = None

\* a Rows iterator drained from both ends: three rows, some from each end
C1_Witness ==
    /\ active = "Rows"
    /\ Pulled /\ res = None
    /\ Len(out) = 3
    /\ \E i, j \in 1 .. Len(out) : out[i].op = "next" /\ out[j].op = "next_back"

---------------------------------------------------------------------------
(* C2 *)

\* C2, as stated: whenever size_hint is called on Rows or Columns, after any
\* sequence of pulls, the count it reports is the number of items a full drain
\* of the iterator then yields.
C2_SizeHintIsDrainCount ==
    /\ (active = "Rows" /\ op = "size_hint") =>
           res.lower = Len(RowsDrain(rows, overflow_checks))
    /\ (active = "Columns" /\ op = "size_hint") =>
           res.lower = Len(ColumnsDrain(columns, overflow_checks))

---------------------------------------------------------------------------
(* C3 *)

\* C3, as stated, for the regions that lie on the u16 grid (x + width and
\* y + height at most u16::MAX): once next() on Positions has returned
\* nothing, the positions yielded are width * height many and are those of the
\* nested loop, in its order.
C3_RowMajorOrder ==
    (active = "Positions" /\ OnGrid(positions.rect) /\ op = "next" /\ res = None) =>
        /\ Len(out) = positions.rect.width * positions.rect.height
        /\ Items = NestedLoop(positions.rect)

---------------------------------------------------------------------------
(* C4 *)

\* C4, as stated: Positions over a region of width 0 or height 0 never yields
\* a position.
C4_EmptyRegionYieldsNothing ==
    (active = "Positions"
        /\ (positions.rect.width = 0 \/ positions.rect.height = 0)) =>
        /\ out = <<>>
        /\ res.tag # "Some"

---------------------------------------------------------------------------
(* C5 *)

\* C5, as stated: calling only next() on Rows yields the rows
\* {x, y + i, width, 1} for i = 0 .. height - 1 in order and then nothing;
\* calling only next() on Columns yields the columns {x + i, y, 1, height}
\* for i = 0 .. width - 1 in order and then nothing.
C5_ForwardYieldsHeightRows ==
    /\ (active = "Rows" /\ OnlyVia("next")) =>
        /\ \A i \in 1 .. Len(out) :
               out[i].item = RectNew(rows.rect.x, rows.rect.y + (i - 1), rows.rect.width, 1)
        /\ Len(out) <= rows.rect.height
        /\ (op = "next" /\ res = None) => Len(out) = rows.rect.height
    /\ (active = "Columns" /\ OnlyVia("next")) =>
        /\ \A i \in 1 .. Len(out) :
               out[i].item = RectNew(columns.rect.x + (i - 1), columns.rect.y, 1, columns.rect.height)
        /\ Len(out) <= columns.rect.width
        /\ (op = "next" /\ res = None) => Len(out) = columns.rect.width

\* C5, amended: calling only next() on Rows yields the rows
\* {x, y + i, width, 1} for i = 0 .. n - 1 in order and then nothing, where
\* n = bottom() - y is the height unless y + height exceeds u16::MAX (the rows
\* are then those of the region that lie below u16::MAX); calling only next()
\* on Columns yields the columns {x + i, y, 1, height} for
\* i = 0 .. right() - x - 1 in order and then nothing.
C5_ForwardPartition ==
    /\ (active = "Rows" /\ OnlyVia("next")) =>
        /\ \A i \in 1 .. Len(out) :
               out[i].item = RectNew(rows.rect.x, rows.rect.y + (i - 1), rows.rect.width, 1)
        /\ Len(out) <= ClippedHeight(rows.rect)
        /\ res # Panic
        /\ (op = "next" /\ res = None) => Len(out) = ClippedHeight(rows.rect)
    /\ (active = "Columns" /\ OnlyVia("next")) =>
        /\ \A i \in 1 .. Len(out) :
               out[i].item = RectNew(columns.rect.x + (i - 1), columns.rect.y, 1, columns.rect.height)
        /\ Len(out) <= ClippedWidth(columns.rect)
        /\ res # Panic
        /\ (op = "next" /\ res = None) => Len(out) = ClippedWidth(columns.rect)

\* a Columns iterator drained forward: three columns, then nothing
C5_Witness ==
    /\ active = "Columns"
    /\ OnlyVia("next")
    /\ Len(out) = 3
    /\ columns.rect.height = 2
    /\ op = "next" /\ res = None

---------------------------------------------------------------------------
(* C6 *)

\* C6, as stated, for the regions that lie on the u16 grid: whenever size_hint
\* is called on Positions, after any number of next() calls, the count it
\* reports is the number of positions that later next() calls yield before
\* returning nothing.
C6_PositionsSizeHintExact ==
    (active = "Positions" /\ OnGrid(positions.rect) /\ op = "size_hint") =>
        LET drain == PositionsDrain(positions, overflow_checks, MaxOut + 1)
        IN Len(drain) <= MaxOut => res.lower = Len(drain)

---------------------------------------------------------------------------
(* C7 *)

---------------------------------------------------------------------------
(* C8 *)

\* C8: once Rows (Columns) has been drained with next_back alone, the items
\* yielded are the reverse of what draining a fresh iterator over the same
\* region with next alone yields: the first is the row at bottom() - 1 (the
\* column at right() - 1), the last is the row at y (the column at x), and
\* after them both next and next_back return nothing.
C8_BackwardIsReverse ==
    /\ (active = "Rows" /\ OnlyVia("next_back") /\ op = "next_back" /\ res = None) =>
        /\ Items = Reverse(RowsDrain(RowsNew(rows.rect), overflow_checks))
        /\ Len(out) > 0 =>
            /\ out[1].item.y = bottom(rows.rect) - 1
            /\ out[Len(out)].item.y = rows.rect.y
        /\ RowsNext(rows, overflow_checks).ret = None
        /\ RowsNextBack(rows, overflow_checks).ret = None
    /\ (active = "Columns" /\ OnlyVia("next_back") /\ op = "next_back" /\ res = None) =>
        /\ Items = Reverse(ColumnsDrain(ColumnsNew(columns.rect), overflow_checks))
        /\ Len(out) > 0 =>
            /\ out[1].item.x = right(columns.rect) - 1
            /\ out[Len(out)].item.x = columns.rect.x
        /\ ColumnsNext(columns, overflow_checks).ret = None
        /\ ColumnsNextBack(columns, overflow_checks).ret = None

\* a Rows iterator of three rows drained backward
C8_Witness ==
    /\ active = "Rows"
    /\ OnlyVia("next_back")
    /\ Len(out) = 3
    /\ op = "next_back" /\ res = None

---------------------------------------------------------------------------
(* C9, C10 *)

\* the coordinate pairs draw has processed so far
Processed == 1 .. (idx - 1)
Projection(i) == get_point(painter, points.coords[i][1], points.coords[i][2])
InRange(i) == Projection(i).tag = "Some"

RECURSIVE ProjectedCells(_)
\* the cells of the first n coordinate pairs, in order, those out of range left out
ProjectedCells(n) ==
    IF n = 0
    THEN <<>>
    ELSE IF InRange(n)
         THEN Append(ProjectedCells(n - 1), Projection(n).val)
         ELSE ProjectedCells(n - 1)

\* C9: at every point of draw, the number of paint calls made is the number of
\* processed coordinate pairs that project into range, every paint used the
\* shape's color, and every cell of the grid holds the shape's color if it is
\* the projection of a processed pair and is unchanged otherwise.
C9_PaintsExactlyProjectedCells ==
    active = "Points" =>
        /\ Len(painter.log) = Cardinality({i \in Processed : InRange(i)})
        /\ \A k \in 1 .. Len(painter.log) : painter.log[k].color = points.color
        /\ \A c \in Cells :
               painter.grid[c] =
                   IF \E i \in Processed : Projection(i) = Some(c)
                   THEN points.color
                   ELSE grid0[c]

\* draw has finished on three pairs: one out of range, two in range in one cell
C9_Witness ==
    /\ active = "Points"
    /\ Len(points.coords) = 3
    /\ idx = Len(points.coords) + 1
    /\ Cardinality({i \in Processed : InRange(i)}) = 2
    /\ Len(painter.log) = 2
    /\ painter.log[1].cell = painter.log[2].cell
    /\ \E c \in Cells : painter.grid[c] = grid0[c] /\ grid0[c] # points.color

\* C10: at every point of draw, the cells painted so far, in the order of the
\* paint calls, are the projections of the processed coordinate pairs in input
\* order with the out-of-range pairs left out.
C10_PaintOrderIsInputOrder ==
    active = "Points" =>
        [k \in 1 .. Len(painter.log) |-> painter.log[k].cell] = ProjectedCells(idx - 1)

\* draw has finished on three pairs: the second is out of range, the first and
\* third are painted, in that order, in different cells
C10_Witness ==
    /\ active = "Points"
    /\ Len(points.coords) = 3
    /\ idx = Len(points.coords) + 1
    /\ InRange(1) /\ ~InRange(2) /\ InRange(3)
    /\ Projection(1) # Projection(3)
    /\ Len(painter.log) = 2
    /\ painter.log[1].cell = Projection(1).val
    /\ painter.log[2].cell = Projection(3).val

---------------------------------------------------------------------------
(* C11 *)

\* the row (column) indices the caller has received
YieldedRows == {out[i].item.y : i \in 1 .. Len(out)}
YieldedColumns == {out[i].item.x : i \in 1 .. Len(out)}

\* C11: in every reachable state of Rows (Columns), start <= forward cursor <=
\* backward cursor <= end, where start and end are y and bottom() (x and
\* right()), and the interval [forward, backward) is exactly the set of the
\* indices in [start, end) that have not been yielded.
C11_CursorInterval ==
    /\ active = "Rows" =>
        /\ rows.rect.y <= rows.current_row_fwd
        /\ rows.current_row_fwd <= rows.current_row_back
        /\ rows.current_row_back <= bottom(rows.rect)
        /\ rows.current_row_fwd .. (rows.current_row_back - 1)
               = (rows.rect.y .. (bottom(rows.rect) - 1)) \ YieldedRows
    /\ active = "Columns" =>
        /\ columns.rect.x <= columns.current_column_fwd
        /\ columns.current_column_fwd <= columns.current_column_back
        /\ columns.current_column_back <= right(columns.rect)
        /\ columns.current_column_fwd .. (columns.current_column_back - 1)
               = (columns.rect.x .. (right(columns.rect) - 1)) \ YieldedColumns

\* a Rows iterator of three rows after one pull from each end: one row is left
C11_Witness ==
    /\ active = "Rows"
    /\ rows.rect.height = 3
    /\ Len(out) = 2
    /\ out[1].op = "next" /\ out[2].op = "next_back"
    /\ rows.current_row_fwd + 1 = rows.current_row_back

---------------------------------------------------------------------------
(* C12 *)

RowsExhausted == rows.current_row_fwd = rows.current_row_back
ColumnsExhausted == columns.current_column_fwd = columns.current_column_back

\* C12: once the cursors of Rows (Columns) are equal, which is the case
\* whenever next or next_back has returned nothing, every later next and
\* next_back returns nothing and leaves both cursors unchanged.
C12_ExhaustionIsAbsorbing ==
    [][ /\ (active = "Rows" /\ Pulled /\ res = None) => RowsExhausted
        /\ (active = "Columns" /\ Pulled /\ res = None) => ColumnsExhausted
        /\ (active = "Rows" /\ RowsExhausted) =>
               /\ rows' = rows
               /\ op' \in {"next", "next_back"} => res' = None
        /\ (active = "Columns" /\ ColumnsExhausted) =>
               /\ columns' = columns
               /\ op' \in {"next", "next_back"} => res' = None ]_vars

\* Rows, drained by next, was asked again from the back and returned nothing
C12_Witness ==
    /\ active = "Rows"
    /\ RowsExhausted
    /\ Len(out) = 2
    /\ OnlyVia("next")
    /\ op = "next_back" /\ res = None

---------------------------------------------------------------------------
(* C13 *)

\* how many of the first i received items came from the method of the i-th
NthOfItsEnd(i) == Cardinality({j \in 1 .. i : out[j].op = out[i].op})

\* C13: under any interleaving, the k-th successful next on Rows yields
\* {x, y + (k - 1), width, 1} and the j-th successful next_back yields
\* {x, bottom() - j, width, 1}; on Columns they yield {x + (k - 1), y, 1, height}
\* and {right() - j, y, 1, height}.
C13_YieldsByEnd ==
    /\ active = "Rows" =>
        \A i \in 1 .. Len(out) :
            out[i].item =
                IF out[i].op = "next"
                THEN RectNew(rows.rect.x, rows.rect.y + (NthOfItsEnd(i) - 1), rows.rect.width, 1)
                ELSE RectNew(rows.rect.x, bottom(rows.rect) - NthOfItsEnd(i), rows.rect.width, 1)
    /\ active = "Columns" =>
        \A i \in 1 .. Len(out) :
            out[i].item =
                IF out[i].op = "next"
                THEN RectNew(columns.rect.x + (NthOfItsEnd(i) - 1), columns.rect.y, 1, columns.rect.height)
                ELSE RectNew(right(columns.rect) - NthOfItsEnd(i), columns.rect.y, 1, columns.rect.height)

\* the scenario of the spec: {0, 0, 2, 3}, next, next_back, next, then nothing
C13_Witness ==
    /\ active = "Rows"
    /\ rows.rect = RectNew(0, 0, 2, 3)
    /\ Items = <<RectNew(0, 0, 2, 1), RectNew(0, 2, 2, 1), RectNew(0, 1, 2, 1)>>
    /\ <<out[1].op, out[2].op, out[3].op>> = <<"next", "next_back", "next">>
    /\ Pulled /\ res = None

---------------------------------------------------------------------------
(* C14 *)

\* the position lies in the rect: x <= p.x < right() and y <= p.y < bottom()
Inside(rect, p) ==
    /\ rect.x <= p.x /\ p.x < right(rect)
    /\ rect.y <= p.y /\ p.y < bottom(rect)

\* C14, as stated, for the regions that lie on the u16 grid: in every
\* reachable state of Positions the current position is inside the region or
\* is (x, bottom()), the exhaustion marker.
C14_CurrentInsideOrMarker ==
    (active = "Positions" /\ OnGrid(positions.rect)) =>
        \/ Inside(positions.rect, positions.current_position)
        \/ positions.current_position = PositionNew(positions.rect.x, bottom(positions.rect))

---------------------------------------------------------------------------
(* C15 *)

\* C15, as stated, for the regions that lie on the u16 grid: whenever
\* size_hint is called on Positions it reports 0 if and only if the current
\* position's y is bottom().
C15_ZeroIffExhausted ==
    (active = "Positions" /\ OnGrid(positions.rect) /\ op = "size_hint") =>
        (res.lower = 0 <=> positions.current_position.y = bottom(positions.rect))

---------------------------------------------------------------------------
(* C16 *)

\* a cursor after a step: unchanged, or one more, and never a panic
StepsUp(old, new) == new \in {old, old + 1}
StepsDown(old, new) == new \in {old, old - 1}

\* C16, as stated: no step panics on overflow, and every cursor update is an
\* exact +1 (next) or -1 (next_back) within 0 .. 65535, the x of Positions
\* being also allowed to return to the region's x at the end of a row.
C16_NoCursorOverflow ==
    [][ /\ res' # Panic
        /\ StepsUp(rows.current_row_fwd, rows'.current_row_fwd)
        /\ StepsDown(rows.current_row_back, rows'.current_row_back)
        /\ StepsUp(columns.current_column_fwd, columns'.current_column_fwd)
        /\ StepsDown(columns.current_column_back, columns'.current_column_back)
        /\ \/ StepsUp(positions.current_position.x, positions'.current_position.x)
           \/ positions'.current_position.x = positions.rect.x
        /\ StepsUp(positions.current_position.y, positions'.current_position.y)
        /\ \A c \in {rows'.current_row_fwd, rows'.current_row_back,
                     columns'.current_column_fwd, columns'.current_column_back,
                     positions'.current_position.x, positions'.current_position.y} :
               c \in 0 .. U16Max ]_vars

---------------------------------------------------------------------------
(* C17 *)

\* the region with x and y swapped and width and height swapped
TransposeRect(r) == RectNew(r.y, r.x, r.height, r.width)
\* the Rows iterator over the transposed region with the cursors of a Columns iterator
AsRows(c) ==
    [rect |-> TransposeRect(c.rect),
     current_row_fwd |-> c.current_column_fwd,
     current_row_back |-> c.current_column_back]
\* the transposed outcome of a call on Columns
TransposeCall(r) ==
    [self |-> AsRows(r.self),
     ret |-> IF r.ret.tag = "Some" THEN Some(TransposeRect(r.ret.val)) ELSE r.ret]

\* C17: Columns over a region R and Rows over the transposed region start in
\* corresponding states, and in every state Columns reaches, each of next,
\* next_back and size_hint gives on Rows (in the corresponding state) the
\* transposed result and leads to the corresponding state; so the two run in
\* step under any sequence of calls.
C17_ColumnsTransposeOfRows ==
    active = "Columns" =>
        /\ RowsNew(TransposeRect(columns.rect)) = AsRows(ColumnsNew(columns.rect))
        /\ RowsNext(AsRows(columns), overflow_checks)
               = TransposeCall(ColumnsNext(columns, overflow_checks))
        /\ RowsNextBack(AsRows(columns), overflow_checks)
               = TransposeCall(ColumnsNextBack(columns, overflow_checks))
        /\ RowsSizeHint(AsRows(columns)) = ColumnsSizeHint(columns)

\* Columns over a 3 x 2 region with x # y, one column pulled from the back, two left
C17_Witness ==
    /\ active = "Columns"
    /\ columns.rect.width = 3 /\ columns.rect.height = 2
    /\ columns.rect.x # columns.rect.y
    /\ Len(out) = 1 /\ out[1].op = "next_back"
    /\ ColumnsSizeHint(columns) = 2
    /\ ColumnsNext(columns, overflow_checks).ret.tag = "Some"

---------------------------------------------------------------------------
(* C18 *)

\* C18, as stated: whenever size_hint is called on Rows, Columns or Positions,
\* after any sequence of pulls, the lower bound it returns is at most the
\* number of items the iterator still yields.
C18_LowerBoundIsSound ==
    /\ (active = "Rows" /\ op = "size_hint") =>
           res.lower <= Len(RowsDrain(rows, overflow_checks))
    /\ (active = "Columns" /\ op = "size_hint") =>
           res.lower <= Len(ColumnsDrain(columns, overflow_checks))
    /\ (active = "Positions" /\ op = "size_hint") =>
           LET drain == PositionsDrain(positions, overflow_checks, MaxOut + 1)
           IN Len(drain) <= MaxOut => res.lower <= Len(drain)

---------------------------------------------------------------------------
(* C19 *)

\* (y, x) lexicographic order on positions
LexLess(p, q) == p.y < q.y \/ (p.y = q.y /\ p.x < q.x)

\* C19, as stated, for the regions that lie on the u16 grid (its safety part:
\* what holds of every call until next() returns nothing, and after): no call
\* of next() on Positions panics, every position yielded lies inside the
\* region and is greater than the one before it in (y, x) order, and once
\* next() has returned nothing it returns nothing again and leaves the current
\* position unchanged.
C19_YieldsInsideIncreasing ==
    (active = "Positions" /\ OnGrid(positions.rect)) =>
        /\ res # Panic
        /\ \A i \in 1 .. Len(out) : Inside(positions.rect, out[i].item)
        /\ \A i \in 1 .. (Len(out) - 1) : LexLess(out[i].item, out[i + 1].item)
        /\ (op = "next" /\ res = None) =>
               PositionsNext(positions, overflow_checks) = [self |-> positions, ret |-> None]

=============================================================================
